---------------------------- MODULE Spec2Model ----------------------------
(***************************************************************************)
(* Network capture and action classification of                            *)
(* capture_webstaurant_requests.py: perf/collect build one snapshot per    *)
(* browser phase, main folds the snapshots into combined_reqs and          *)
(* combined_resps, buckets the combined requests by ACTIONS, prints the    *)
(* best request of every action and writes the dump of all snapshots.      *)
(***************************************************************************)
EXTENDS Integers, Sequences, FiniteSets, TLC

VARIABLES
    pc,             \* position of main: "collect", "classify", "summary", "dump", "done", "crashed"
    phase,          \* index into PHASES of the collect() call in progress
    log,            \* entries of d.get_log("performance") consumed by the collect() in progress
    seq,            \* collect: seq
    reqs,           \* collect: reqs
    resps,          \* collect: resps
    all_snapshots,  \* main: all_snapshots
    combined_reqs,  \* main: combined_reqs
    combined_resps, \* main: combined_resps
    buckets,        \* main: buckets
    ai,             \* main: index of the summary loop over the five action names
    best,           \* main: best of the iteration last run
    printed,        \* what the summary loop printed, one record per action
    dump,           \* content written to DUMP_FILE, None before it is written
    fed,            \* number of performance-log entries the browser has delivered so far
    cands           \* pick_best: cands (SpecPick)

vars == <<pc, phase, log, seq, reqs, resps, all_snapshots, combined_reqs,
          combined_resps, buckets, ai, best, printed, dump, fed, cands>>

-----------------------------------------------------------------------------
(* Bounds of the model *)

\* entries in the performance log of one collect() call (SpecCollect)
MaxBatch == 3
\* entries in the performance logs of a whole session (Spec)
MaxEvents == 3
\* exchanges of a CombinedView handed to the classification (SpecClassify)
MaxView == 2
\* candidates of a bucket handed to the selector (SpecPick)
MaxCands == 3

-----------------------------------------------------------------------------
(* Settings *)

MAX_BODY_CHARS == 2000

\* Python's None where the value is otherwise a string
None == "<None>"
\* Python's None where the value is otherwise a dict
NoneRec == [none |-> TRUE]

-----------------------------------------------------------------------------
(* Strings.  A string is a sequence of characters to re.search, str.lower  *)
(* and str.upper; Chars gives the characters of the strings of the model.  *)

Chars(s) ==
    CASE s = ""                             -> <<>>
      [] s = "https://h/cart/"              -> <<"h", "t", "t", "p", "s", ":", "/", "/", "h", "/", "c", "a", "r", "t", "/">>
      [] s = "https://h/cart?add=1"         -> <<"h", "t", "t", "p", "s", ":", "/", "/", "h", "/", "c", "a", "r", "t", "?", "a", "d", "d", "=", "1">>
      [] s = "https://h/api/cart"           -> <<"h", "t", "t", "p", "s", ":", "/", "/", "h", "/", "a", "p", "i", "/", "c", "a", "r", "t">>
      [] s = "https://h/API/Product/cart"   -> <<"h", "t", "t", "p", "s", ":", "/", "/", "h", "/", "A", "P", "I", "/", "P", "r", "o", "d", "u", "c", "t", "/", "c", "a", "r", "t">>
      [] s = "https://h/checkout/signin"    -> <<"h", "t", "t", "p", "s", ":", "/", "/", "h", "/", "c", "h", "e", "c", "k", "o", "u", "t", "/", "s", "i", "g", "n", "i", "n">>
      [] s = "https://h/sign-in"            -> <<"h", "t", "t", "p", "s", ":", "/", "/", "h", "/", "s", "i", "g", "n", "-", "i", "n">>
      [] s = "https://h/logo.png"           -> <<"h", "t", "t", "p", "s", ":", "/", "/", "h", "/", "l", "o", "g", "o", ".", "p", "n", "g">>
      [] s = "GET"                          -> <<"G", "E", "T">>
      [] s = "POST"                         -> <<"P", "O", "S", "T">>
      [] s = "post"                         -> <<"p", "o", "s", "t">>
      [] s = "PUT"                          -> <<"P", "U", "T">>
      [] s = "Cookie"                       -> <<"C", "o", "o", "k", "i", "e">>
      [] s = "AUTHORIZATION"                -> <<"A", "U", "T", "H", "O", "R", "I", "Z", "A", "T", "I", "O", "N">>
      [] s = "X-Csrf-Token"                 -> <<"X", "-", "C", "s", "r", "f", "-", "T", "o", "k", "e", "n">>
      [] s = "x-xsrf-token"                 -> <<"x", "-", "x", "s", "r", "f", "-", "t", "o", "k", "e", "n">>
      [] s = "Accept"                       -> <<"A", "c", "c", "e", "p", "t">>
      [] s = "Content-Type"                 -> <<"C", "o", "n", "t", "e", "n", "t", "-", "T", "y", "p", "e">>
      [] s = "Set-Cookie"                   -> <<"S", "e", "t", "-", "C", "o", "o", "k", "i", "e">>
      [] s = "cookie"                       -> <<"c", "o", "o", "k", "i", "e">>
      [] s = "authorization"                -> <<"a", "u", "t", "h", "o", "r", "i", "z", "a", "t", "i", "o", "n">>
      [] s = "x-csrf-token"                 -> <<"x", "-", "c", "s", "r", "f", "-", "t", "o", "k", "e", "n">>
      [] s = "/graphql"                     -> <<"/", "g", "r", "a", "p", "h", "q", "l">>
      [] s = "/api/"                        -> <<"/", "a", "p", "i", "/">>
      [] s = "product"                      -> <<"p", "r", "o", "d", "u", "c", "t">>
      [] s = "/ajax/"                       -> <<"/", "a", "j", "a", "x", "/">>
      [] s = "/product"                     -> <<"/", "p", "r", "o", "d", "u", "c", "t">>
      [] s = "price"                        -> <<"p", "r", "i", "c", "e">>
      [] s = "/inventory"                   -> <<"/", "i", "n", "v", "e", "n", "t", "o", "r", "y">>
      [] s = "/availability"                -> <<"/", "a", "v", "a", "i", "l", "a", "b", "i", "l", "i", "t", "y">>
      [] s = "/cart"                        -> <<"/", "c", "a", "r", "t">>
      [] s = "add"                          -> <<"a", "d", "d">>
      [] s = "/cart/line"                   -> <<"/", "c", "a", "r", "t", "/", "l", "i", "n", "e">>
      [] s = "cart"                         -> <<"c", "a", "r", "t">>
      [] s = "/cart?"                       -> <<"/", "c", "a", "r", "t", "?">>
      [] s = "https://"                     -> <<"h", "t", "t", "p", "s", ":", "/", "/">>
      [] s = "/"                            -> <<"/">>
      [] s = "?"                            -> <<"?">>
      [] s = "/checkout"                    -> <<"/", "c", "h", "e", "c", "k", "o", "u", "t">>
      [] s = "/checkout/start"              -> <<"/", "c", "h", "e", "c", "k", "o", "u", "t", "/", "s", "t", "a", "r", "t">>
      [] s = "checkout"                     -> <<"c", "h", "e", "c", "k", "o", "u", "t">>
      [] s = "/login"                       -> <<"/", "l", "o", "g", "i", "n">>
      [] s = "/sign"                        -> <<"/", "s", "i", "g", "n">>
      [] s = "-"                            -> <<"-">>
      [] s = "in"                           -> <<"i", "n">>
      [] s = "/session"                     -> <<"/", "s", "e", "s", "s", "i", "o", "n">>
      [] s = "/oauth"                       -> <<"/", "o", "a", "u", "t", "h">>
      [] s = "/identity"                    -> <<"/", "i", "d", "e", "n", "t", "i", "t", "y">>
      [] s = "auth"                         -> <<"a", "u", "t", "h">>
      [] s = "/auth"                        -> <<"/", "a", "u", "t", "h">>

Lower(c) ==
    CASE c = "A" -> "a" [] c = "B" -> "b" [] c = "C" -> "c" [] c = "D" -> "d"
      [] c = "E" -> "e" [] c = "F" -> "f" [] c = "G" -> "g" [] c = "H" -> "h"
      [] c = "I" -> "i" [] c = "J" -> "j" [] c = "K" -> "k" [] c = "L" -> "l"
      [] c = "M" -> "m" [] c = "N" -> "n" [] c = "O" -> "o" [] c = "P" -> "p"
      [] c = "Q" -> "q" [] c = "R" -> "r" [] c = "S" -> "s" [] c = "T" -> "t"
      [] c = "U" -> "u" [] c = "V" -> "v" [] c = "W" -> "w" [] c = "X" -> "x"
      [] c = "Y" -> "y" [] c = "Z" -> "z" [] OTHER -> c

Upper(c) ==
    CASE c = "a" -> "A" [] c = "b" -> "B" [] c = "c" -> "C" [] c = "d" -> "D"
      [] c = "e" -> "E" [] c = "f" -> "F" [] c = "g" -> "G" [] c = "h" -> "H"
      [] c = "i" -> "I" [] c = "j" -> "J" [] c = "k" -> "K" [] c = "l" -> "L"
      [] c = "m" -> "M" [] c = "n" -> "N" [] c = "o" -> "O" [] c = "p" -> "P"
      [] c = "q" -> "Q" [] c = "r" -> "R" [] c = "s" -> "S" [] c = "t" -> "T"
      [] c = "u" -> "U" [] c = "v" -> "V" [] c = "w" -> "W" [] c = "x" -> "X"
      [] c = "y" -> "Y" [] c = "z" -> "Z" [] OTHER -> c

\* s.lower() and s.upper(), as character sequences
lower(s) == [i \in 1..Len(Chars(s)) |-> Lower(Chars(s)[i])]
upper(s) == [i \in 1..Len(Chars(s)) |-> Upper(Chars(s)[i])]

-----------------------------------------------------------------------------
(* Regular expressions of ACTIONS.  A pattern is a sequence of nodes: a    *)
(* character, "." (any), "[^/]" (notslash), "^" (bol), "$" (eol) or a      *)
(* group of two alternatives, each with its quantifier "1", "?", "*", "+". *)

Node(k, q) == [k |-> k, q |-> q, c |-> "", a |-> <<>>, b |-> <<>>]
Chr(c, q)  == [k |-> "chr", q |-> q, c |-> c, a |-> <<>>, b |-> <<>>]
Alt(a, b)  == [k |-> "alt", q |-> "1", c |-> "", a |-> a, b |-> b]
Lit(s)     == [i \in 1..Len(Chars(s)) |-> Chr(Chars(s)[i], "1")]
AnyStar    == <<Node("any", "*")>>
Bol        == <<Node("bol", "1")>>
Eol        == <<Node("eol", "1")>>

\* positions after one match of the node n (not a group) at position i of s,
\* case-insensitively (re.I); the strings of the model hold no line break
Once(n, s, i) ==
    CASE n.k = "chr"      -> IF i <= Len(s) /\ Lower(s[i]) = Lower(n.c) THEN {i + 1} ELSE {}
      [] n.k = "any"      -> IF i <= Len(s) THEN {i + 1} ELSE {}
      [] n.k = "notslash" -> IF i <= Len(s) /\ s[i] # "/" THEN {i + 1} ELSE {}
      [] n.k = "bol"      -> IF i = 1 THEN {i} ELSE {}
      [] n.k = "eol"      -> IF i = Len(s) + 1 THEN {i} ELSE {}

\* the pattern re matches s from position i on
RECURSIVE MatchFrom(_, _, _)
MatchFrom(re, s, i) ==
    IF re = <<>> THEN TRUE
    ELSE LET n    == Head(re)
             rest == Tail(re)
         IN  CASE n.k = "alt" -> (MatchFrom(n.a \o rest, s, i) \/ MatchFrom(n.b \o rest, s, i))
               [] n.q = "1"   -> (\E j \in Once(n, s, i) : MatchFrom(rest, s, j))
               [] n.q = "?"   -> ((\E j \in Once(n, s, i) : MatchFrom(rest, s, j))
                                  \/ MatchFrom(rest, s, i))
               [] n.q = "*"   -> ((\E j \in Once(n, s, i) : MatchFrom(re, s, j))
                                  \/ MatchFrom(rest, s, i))
               [] n.q = "+"   -> (\E j \in Once(n, s, i) :
                                      MatchFrom(<<[n EXCEPT !.q = "*"]>> \o rest, s, j))

\* re.search(p, url, re.I) finds a match
search(p, url) == \E i \in 1..(Len(Chars(url)) + 1) : MatchFrom(p, Chars(url), i)

\* Action patterns, in the order of the dict
ACTIONS_TABLE == <<
    [action |-> "fetch_product", pats |-> <<
        Lit("/graphql"),
        Lit("/api/") \o AnyStar \o Lit("product"),
        Lit("/ajax/") \o AnyStar \o Lit("product"),
        Lit("/product") \o AnyStar \o Lit("price"),
        Lit("/inventory"),
        Lit("/availability") >>],
    [action |-> "add_to_cart", pats |-> <<
        Lit("/cart") \o AnyStar \o Lit("add"),
        Lit("/cart/line"),
        Lit("/ajax/") \o AnyStar \o Lit("cart"),
        Lit("/api/") \o AnyStar \o Lit("cart"),
        Lit("/cart?") >>],
    [action |-> "view_cart", pats |-> <<
        Bol \o Lit("https://") \o <<Node("notslash", "+")>> \o Lit("/cart")
            \o <<Chr("/", "?")>> \o Eol,
        Lit("/cart") \o <<Alt(Lit("?"), Eol)>>,
        Lit("/api/") \o AnyStar \o Lit("cart") >>],
    [action |-> "go_to_checkout", pats |-> <<
        Lit("/checkout"),
        Lit("/checkout/start"),
        Lit("/api/") \o AnyStar \o Lit("checkout"),
        Lit("/ajax/") \o AnyStar \o Lit("checkout") >>],
    [action |-> "sign_in", pats |-> <<
        Lit("/login"),
        Lit("/sign") \o <<Chr("-", "?")>> \o Lit("in"),
        Lit("/session"),
        Lit("/oauth"),
        Lit("/identity"),
        Lit("/api/") \o AnyStar \o Lit("auth"),
        Lit("/auth") >>] >>

ActionNames == {ACTIONS_TABLE[i].action : i \in 1..Len(ACTIONS_TABLE)}

HIDE_HDRS == {"cookie", "authorization", "x-csrf-token", "x-xsrf-token"}

REDACTED == "<redacted>"

\* redact(h): h is a mapping of header names to values
redact(h) ==
    [k \in DOMAIN h |-> IF \E x \in HIDE_HDRS : lower(k) = Chars(x) THEN REDACTED ELSE h[k]]

\* matches(url, pats)
matches(url, pats) == \E i \in 1..Len(pats) : search(pats[i], url)

-----------------------------------------------------------------------------
(* Python dicts keep insertion order: a dict is a sequence of items        *)
(* [k |-> key, v |-> value] with pairwise different keys.                  *)

DictHas(d, k)   == \E i \in 1..Len(d) : d[i].k = k
DictIndex(d, k) == CHOOSE i \in 1..Len(d) : d[i].k = k
DictKeys(d)     == {d[i].k : i \in 1..Len(d)}
\* d.get(k, default)
DictGet(d, k, default) == IF DictHas(d, k) THEN d[DictIndex(d, k)].v ELSE default
\* d[k] = v
DictSet(d, k, v) ==
    IF DictHas(d, k) THEN [d EXCEPT ![DictIndex(d, k)].v = v]
    ELSE Append(d, [k |-> k, v |-> v])
\* d.update(other)
RECURSIVE DictUpdate(_, _)
DictUpdate(d, other) ==
    IF other = <<>> THEN d
    ELSE DictUpdate(DictSet(d, Head(other).k, Head(other).v), Tail(other))

-----------------------------------------------------------------------------
(* Decoded JSON.  A JSON object is [t |-> "obj", f |-> its members]; a     *)
(* value of another shape, on which .get raises AttributeError, is         *)
(* NotAMapping.                                                            *)

Obj(f)      == [t |-> "obj", f |-> f]
NotAMapping == [t |-> "list"]
EmptyObj    == Obj(<<>>)
\* o.get(k, default) of a JSON object o
Get(o, k, default) == IF k \in DOMAIN o.f THEN o.f[k] ELSE default
\* truth value of a string or None
Truthy(x) == x # None /\ x # ""

\* perf: json.loads(e["message"])["message"] of an entry that decodes
Decoded(m)  == [decodes |-> TRUE, message |-> m]
\* perf: an entry on which that expression raises, which perf passes over
Undecodable == [decodes |-> FALSE]

-----------------------------------------------------------------------------
(* collect *)

\* the locals of collect after an iteration, or the exception leaving it
Ok(s, q, p)  == [raised |-> FALSE, seq |-> s, reqs |-> q, resps |-> p]
Raised(st)   == [raised |-> TRUE, seq |-> st.seq, reqs |-> st.reqs, resps |-> st.resps]

\* on_request with a recurring id keeping its first record
on_request_first_wins(st, p) ==
    IF p.t # "obj" THEN Raised(st)
    ELSE LET rid == Get(p, "requestId", None)
             r   == Get(p, "request", EmptyObj)
         IN  IF ~Truthy(rid) THEN Ok(st.seq, st.reqs, st.resps)
             ELSE IF r.t # "obj" THEN Raised(st)
             ELSE IF DictHas(st.reqs, rid) THEN Ok(st.seq + 1, st.reqs, st.resps)
             ELSE Ok(st.seq + 1,
                     DictSet(st.reqs, rid,
                             [seq      |-> st.seq + 1,
                              url      |-> Get(r, "url", ""),
                              method   |-> Get(r, "method", "GET"),
                              headers  |-> Get(r, "headers", <<>>),
                              postData |-> Get(r, "postData", None)]),
                     st.resps)

\* branch name=="Network.requestWillBeSent" of an iteration, p = m.get("params",{})
on_request(st, p) ==
    IF p.t # "obj" THEN Raised(st)
    ELSE LET rid == Get(p, "requestId", None)
             r   == Get(p, "request", EmptyObj)
         IN  IF ~Truthy(rid) THEN Ok(st.seq, st.reqs, st.resps)
             ELSE IF r.t # "obj" THEN Raised(st)
             ELSE Ok(st.seq + 1,
                     DictSet(st.reqs, rid,
                             [seq      |-> st.seq + 1,
                              url      |-> Get(r, "url", ""),
                              method   |-> Get(r, "method", "GET"),
                              headers  |-> Get(r, "headers", <<>>),
                              postData |-> Get(r, "postData", None)]),
                     st.resps)

\* on_response storing a response only for an id whose request was seen
on_response_known_only(st, p) ==
    IF p.t # "obj" THEN Raised(st)
    ELSE LET rid == Get(p, "requestId", None)
             r   == Get(p, "response", EmptyObj)
         IN  IF ~Truthy(rid) \/ ~DictHas(st.reqs, rid) THEN Ok(st.seq, st.reqs, st.resps)
             ELSE IF r.t # "obj" THEN Raised(st)
             ELSE Ok(st.seq, st.reqs,
                     DictSet(st.resps, rid,
                             [status   |-> Get(r, "status", None),
                              headers  |-> Get(r, "headers", <<>>),
                              mimeType |-> Get(r, "mimeType", None)]))

\* branch name=="Network.responseReceived" of an iteration
on_response(st, p) ==
    IF p.t # "obj" THEN Raised(st)
    ELSE LET rid == Get(p, "requestId", None)
             r   == Get(p, "response", EmptyObj)
         IN  IF ~Truthy(rid) THEN Ok(st.seq, st.reqs, st.resps)
             ELSE IF r.t # "obj" THEN Raised(st)
             ELSE Ok(st.seq, st.reqs,
                     DictSet(st.resps, rid,
                             [status   |-> Get(r, "status", None),
                              headers  |-> Get(r, "headers", <<>>),
                              mimeType |-> Get(r, "mimeType", None)]))

\* one iteration of the loop of collect over a message m that perf yields
collect_iter(st, m) ==
    IF m.t # "obj" THEN Raised(st)
    ELSE LET name == Get(m, "method", None)
             p    == Get(m, "params", EmptyObj)
         IN  IF name = "Network.requestWillBeSent" THEN on_request(st, p)
             ELSE IF name = "Network.responseReceived" THEN on_response(st, p)
             ELSE Ok(st.seq, st.reqs, st.resps)

-----------------------------------------------------------------------------
(* get_body, pick_best, print_request *)

\* get_body: f is what Network.getResponseBody does, an exception
\* ([ok |-> FALSE]) or a result with the length of its body
get_body(f) ==
    IF ~f.ok THEN [body |-> 0, b64 |-> FALSE]
    ELSE [body |-> f.body, b64 |-> f.base64Encoded]

\* the sort key of pick_best: (0 if x["method"].upper()=="POST" else 1, -x["seq"])
rank(x) == IF upper(x.method) = Chars("POST") THEN 0 ELSE 1
KeyLess(x, y) == rank(x) < rank(y) \/ (rank(x) = rank(y) /\ -x.seq < -y.seq)

\* sorted(cands, key=...): stable
RECURSIVE sorted(_)
sorted(s) ==
    IF s = <<>> THEN <<>>
    ELSE LET front == sorted(SubSeq(s, 1, Len(s) - 1))
             x     == s[Len(s)]
             n     == Cardinality({i \in 1..Len(front) : ~KeyLess(x, front[i])})
         IN  SubSeq(front, 1, n) \o <<x>> \o SubSeq(front, n + 1, Len(front))

\* pick_best taking the oldest of the preferred rank
pick_best_oldest(cs) == IF cs = <<>> THEN NoneRec ELSE sorted(cs)[Len(cs)]

pick_best(cs) == IF cs = <<>> THEN NoneRec ELSE sorted(cs)[1]

\* the postData that json.loads parses
JsonTexts == {"{\"sku\":1}"}

Min(a, b) == IF a <= b THEN a ELSE b

\* print_request: what it prints, one field per printed item
print_request(title, req, resp, body, b64) ==
    [action          |-> title,
     observed        |-> TRUE,
     METHOD          |-> req.method,
     URL             |-> req.url,
     REQUEST_HEADERS |-> redact(req.headers),
     REQUEST_BODY    |-> IF ~Truthy(req.postData) THEN None
                         ELSE IF req.postData \in JsonTexts THEN "REQUEST_BODY_JSON"
                         ELSE "REQUEST_BODY_RAW",
     STATUS          |-> IF "status" \in DOMAIN resp THEN resp.status ELSE None,
     RESPONSE_HEADERS |-> IF "headers" \in DOMAIN resp THEN resp.headers ELSE <<>>,
     RESPONSE_BODY_SNIPPET |->
        IF body = 0 THEN [shown |-> FALSE, chars |-> 0, truncated |-> FALSE]
        ELSE IF b64 THEN [shown |-> TRUE, chars |-> 0, truncated |-> FALSE]
        ELSE [shown |-> TRUE, chars |-> Min(body, MAX_BODY_CHARS),
              truncated |-> body > MAX_BODY_CHARS]]

-----------------------------------------------------------------------------
(* main: classification across all phases *)

PHASES == <<"pdp", "add_to_cart", "cart", "checkout", "signin">>

SUMMARY_ORDER == <<"fetch_product", "add_to_cart", "view_cart", "go_to_checkout", "sign_in">>

\* combine keeping the first record of an id
RECURSIVE combine_first_wins(_)
combine_first_wins(snaps) ==
    IF snaps = <<>> THEN [reqs |-> <<>>, resps |-> <<>>]
    ELSE LET acc  == combine_first_wins(SubSeq(snaps, 1, Len(snaps) - 1))
             snap == snaps[Len(snaps)]
         IN  [reqs  |-> DictUpdate(snap.reqs, acc.reqs),
              resps |-> DictUpdate(snap.resps, acc.resps)]

\* combine taking the responses of the last snapshot alone
RECURSIVE combine_resps_assigned(_)
combine_resps_assigned(snaps) ==
    IF snaps = <<>> THEN [reqs |-> <<>>, resps |-> <<>>]
    ELSE LET acc  == combine_resps_assigned(SubSeq(snaps, 1, Len(snaps) - 1))
             snap == snaps[Len(snaps)]
         IN  [reqs  |-> DictUpdate(acc.reqs, snap.reqs),
              resps |-> snap.resps]

\* combined_reqs and combined_resps after the loop over all_snapshots
RECURSIVE combine(_)
combine(snaps) ==
    IF snaps = <<>> THEN [reqs |-> <<>>, resps |-> <<>>]
    ELSE LET acc  == combine(SubSeq(snaps, 1, Len(snaps) - 1))
             snap == snaps[Len(snaps)]
         IN  [reqs  |-> DictUpdate(acc.reqs, snap.reqs),
              resps |-> DictUpdate(acc.resps, snap.resps)]

\* bucketize_item without the break
RECURSIVE bucketize_item_no_break(_, _, _)
bucketize_item_no_break(b, item, i) ==
    IF i > Len(ACTIONS_TABLE) THEN b
    ELSE IF matches(item.v.url, ACTIONS_TABLE[i].pats)
         THEN bucketize_item_no_break(
                  [b EXCEPT ![ACTIONS_TABLE[i].action] = Append(@, item.v @@ [rid |-> item.k])],
                  item, i + 1)
         ELSE bucketize_item_no_break(b, item, i + 1)

\* the inner loop of Bucketize for one item of combined_reqs, from the i-th
\* action of the table on: the first action that matches takes it (break)
RECURSIVE bucketize_item(_, _, _)
bucketize_item(b, item, i) ==
    IF i > Len(ACTIONS_TABLE) THEN b
    ELSE IF matches(item.v.url, ACTIONS_TABLE[i].pats)
         THEN [b EXCEPT ![ACTIONS_TABLE[i].action] = Append(@, item.v @@ [rid |-> item.k])]
         ELSE bucketize_item(b, item, i + 1)

\* buckets after the loop over combined_reqs.items()
RECURSIVE bucketize(_)
bucketize(creqs) ==
    IF creqs = <<>> THEN [a \in ActionNames |-> <<>>]
    ELSE bucketize_item(bucketize(SubSeq(creqs, 1, Len(creqs) - 1)), creqs[Len(creqs)], 1)

-----------------------------------------------------------------------------
(* What the browser delivers *)

IdSeq == <<"X", "Y", "Z", "W">>
IDS   == {"X", "Y"}

REQ  == "Network.requestWillBeSent"
RESP == "Network.responseReceived"

RQ_GET  == Obj([url     |-> "https://h/api/cart",
                method  |-> "GET",
                headers |-> ("Cookie" :> "sid=1")])
RQ_POST == Obj([url      |-> "https://h/cart?add=1",
                method   |-> "POST",
                headers  |-> ("AUTHORIZATION" :> "Bearer t") @@ ("Accept" :> "*/*"),
                postData |-> "{\"sku\":1}"])
RS_OK   == Obj([status   |-> "200",
                headers  |-> ("X-Csrf-Token" :> "tok") @@ ("Content-Type" :> "text/html"),
                mimeType |-> "text/html"])

ReqEntry(rid, r)  == Decoded(Obj([method |-> REQ, params |-> Obj([requestId |-> rid, request |-> r])]))
RespEntry(rid, r) == Decoded(Obj([method |-> RESP, params |-> Obj([requestId |-> rid, response |-> r])]))

\* the entries of a session (Spec): requests and responses of two ids, one
\* of them also as a POST, and one message that is not a mapping
LeanEntries ==
    {ReqEntry(rid, RQ_GET) : rid \in IDS}
    \cup {ReqEntry("X", RQ_POST)}
    \cup {RespEntry(rid, RS_OK) : rid \in IDS}
    \cup {Decoded(NotAMapping)}

\* the entries of one collect() call (SpecCollect): also every shape that
\* perf or collect passes over or raises on
AllEntries ==
    {ReqEntry(rid, r) : rid \in IDS, r \in {RQ_GET, RQ_POST, EmptyObj}}
    \cup {RespEntry(rid, r) : rid \in IDS, r \in {RS_OK, EmptyObj}}
    \cup {Undecodable,
          Decoded(NotAMapping),
          Decoded(EmptyObj),
          Decoded(Obj([method |-> "Page.loadEventFired", params |-> NotAMapping])),
          Decoded(Obj([method |-> REQ])),
          Decoded(Obj([method |-> REQ, params |-> NotAMapping])),
          Decoded(Obj([method |-> REQ, params |-> Obj([request |-> RQ_GET])])),
          Decoded(Obj([method |-> REQ, params |-> Obj([request |-> NotAMapping])])),
          ReqEntry("", RQ_GET),
          ReqEntry("X", NotAMapping),
          Decoded(Obj([method |-> RESP, params |-> NotAMapping])),
          Decoded(Obj([method |-> RESP, params |-> Obj([response |-> RS_OK])])),
          RespEntry("X", NotAMapping)}

\* what Network.getResponseBody does for get_body
LeanFetches == {[ok |-> FALSE], [ok |-> TRUE, body |-> 5, base64Encoded |-> FALSE]}
AllFetches  == LeanFetches \cup {[ok |-> TRUE, body |-> 2001, base64Encoded |-> FALSE],
                                 [ok |-> TRUE, body |-> 5, base64Encoded |-> TRUE]}

-----------------------------------------------------------------------------
(* The state machine *)

EmptyBuckets == [a \in ActionNames |-> <<>>]

Init ==
    /\ pc = "collect" /\ phase = 1 /\ log = <<>> /\ fed = 0
    /\ seq = 0 /\ reqs = <<>> /\ resps = <<>>
    /\ all_snapshots = <<>>
    /\ combined_reqs = <<>> /\ combined_resps = <<>>
    /\ buckets = EmptyBuckets
    /\ ai = 0 /\ best = NoneRec /\ printed = <<>> /\ dump = NoneRec
    /\ cands = <<>>

\* perf hands the entry e to the loop of collect: perf passes over an entry
\* that does not decode; an exception in the loop leaves collect and main
CollectStep(e, limit) ==
    /\ pc = "collect" /\ fed < limit
    /\ fed' = fed + 1
    /\ log' = Append(log, e)
    /\ IF ~e.decodes
       THEN UNCHANGED <<pc, seq, reqs, resps>>
       ELSE LET st == collect_iter([seq |-> seq, reqs |-> reqs, resps |-> resps], e.message)
            IN  IF st.raised
                THEN pc' = "crashed" /\ UNCHANGED <<seq, reqs, resps>>
                ELSE pc' = pc /\ seq' = st.seq /\ reqs' = st.reqs /\ resps' = st.resps
    /\ UNCHANGED <<phase, all_snapshots, combined_reqs, combined_resps, buckets,
                   ai, best, printed, dump, cands>>

\* collect returns reqs, resps; main appends the snapshot and goes on to the
\* next phase, or to the classification after the last
CollectReturn ==
    /\ pc = "collect"
    /\ all_snapshots' = Append(all_snapshots,
                               [phase |-> PHASES[phase], reqs |-> reqs, resps |-> resps])
    /\ seq' = 0 /\ reqs' = <<>> /\ resps' = <<>> /\ log' = <<>>
    /\ IF phase < Len(PHASES)
       THEN phase' = phase + 1 /\ pc' = pc
       ELSE phase' = phase /\ pc' = "classify"
    /\ UNCHANGED <<fed, combined_reqs, combined_resps, buckets, ai, best, printed,
                   dump, cands>>

\* main: combine the snapshots and bucketize
Classify ==
    /\ pc = "classify"
    /\ combined_reqs' = combine(all_snapshots).reqs
    /\ combined_resps' = combine(all_snapshots).resps
    /\ buckets' = bucketize(combined_reqs')
    /\ ai' = 1
    /\ pc' = "summary"
    /\ UNCHANGED <<phase, log, fed, seq, reqs, resps, all_snapshots, best, printed,
                   dump, cands>>

\* SummaryNotObserved with break in place of continue
SummaryNotObserved_break ==
    /\ pc = "summary"
    /\ pick_best(buckets[SUMMARY_ORDER[ai]]) = NoneRec
    /\ best' = NoneRec
    /\ printed' = Append(printed, [action |-> SUMMARY_ORDER[ai], observed |-> FALSE])
    /\ ai' = ai + 1
    /\ pc' = "dump"
    /\ UNCHANGED <<phase, log, fed, seq, reqs, resps, all_snapshots, combined_reqs,
                   combined_resps, buckets, dump, cands>>

\* an iteration of the summary loop whose bucket is empty
SummaryNotObserved ==
    /\ pc = "summary"
    /\ pick_best(buckets[SUMMARY_ORDER[ai]]) = NoneRec
    /\ best' = NoneRec
    /\ printed' = Append(printed, [action |-> SUMMARY_ORDER[ai], observed |-> FALSE])
    /\ ai' = ai + 1
    /\ pc' = IF ai = Len(SUMMARY_ORDER) THEN "dump" ELSE pc
    /\ UNCHANGED <<phase, log, fed, seq, reqs, resps, all_snapshots, combined_reqs,
                   combined_resps, buckets, dump, cands>>

\* an iteration of the summary loop that prints the best request of its
\* action; f is what Network.getResponseBody does
SummarySelected(f) ==
    /\ pc = "summary"
    /\ pick_best(buckets[SUMMARY_ORDER[ai]]) # NoneRec
    /\ best' = pick_best(buckets[SUMMARY_ORDER[ai]])
    /\ LET resp == DictGet(combined_resps, best'.rid, <<>>)
           got  == get_body(f)
       IN  printed' = Append(printed,
                             print_request(SUMMARY_ORDER[ai], best', resp, got.body, got.b64))
    /\ ai' = ai + 1
    /\ pc' = IF ai = Len(SUMMARY_ORDER) THEN "dump" ELSE pc
    /\ UNCHANGED <<phase, log, fed, seq, reqs, resps, all_snapshots, combined_reqs,
                   combined_resps, buckets, dump, cands>>

\* main: save the full dump
Dump ==
    /\ pc = "dump"
    /\ dump' = [created_at |-> "utcnow", phases |-> all_snapshots]
    /\ pc' = "done"
    /\ UNCHANGED <<phase, log, fed, seq, reqs, resps, all_snapshots, combined_reqs,
                   combined_resps, buckets, ai, best, printed, cands>>

Next ==
    \/ \E e \in LeanEntries : CollectStep(e, MaxEvents)
    \/ CollectReturn
    \/ Classify
    \/ SummaryNotObserved
    \/ \E f \in LeanFetches : SummarySelected(f)
    \/ Dump

Spec == Init /\ [][Next]_vars

-----------------------------------------------------------------------------
(* One collect() call over every shape of entry *)

NextCollect ==
    \/ \E e \in AllEntries : phase = 1 /\ CollectStep(e, MaxBatch)
    \/ phase = 1 /\ CollectReturn

SpecCollect == Init /\ [][NextCollect]_vars

-----------------------------------------------------------------------------
(* The classification of the sessions whose first phase saw up to MaxView  *)
(* requests, of any url of ViewURLs, and the responses of some of them     *)

ViewURLs == {"", "https://h/cart/", "https://h/cart?add=1", "https://h/api/cart",
             "https://h/API/Product/cart", "https://h/checkout/signin",
             "https://h/sign-in", "https://h/logo.png"}

\* collect over a whole log none of whose entries raises
RECURSIVE collect_all(_, _)
collect_all(st, entries) ==
    IF entries = <<>> THEN st
    ELSE collect_all(IF Head(entries).decodes THEN collect_iter(st, Head(entries).message)
                     ELSE st,
                     Tail(entries))

InitClassify ==
    \E n \in 0..MaxView :
      \E url \in [1..n -> ViewURLs] :
        \E answered \in SUBSET {IdSeq[i] : i \in 1..n} :
          LET HasResp(e) == e.message.f.params.f.requestId \in answered
              entries == [i \in 1..n |-> ReqEntry(IdSeq[i],
                                                  Obj([url     |-> url[i],
                                                       method  |-> "GET",
                                                       headers |-> ("Cookie" :> "sid=1")]))]
                         \o SelectSeq([i \in 1..n |-> RespEntry(IdSeq[i], RS_OK)], HasResp)
              st == collect_all([seq |-> 0, reqs |-> <<>>, resps |-> <<>>], entries)
          IN  /\ pc = "classify" /\ phase = Len(PHASES) /\ log = <<>>
              /\ fed = Len(entries)
              /\ seq = 0 /\ reqs = <<>> /\ resps = <<>>
              /\ all_snapshots =
                    <<[phase |-> PHASES[1], reqs |-> st.reqs, resps |-> st.resps]>>
                    \o [i \in 1..(Len(PHASES) - 1) |->
                          [phase |-> PHASES[i + 1], reqs |-> <<>>, resps |-> <<>>]]
              /\ combined_reqs = <<>> /\ combined_resps = <<>>
              /\ buckets = EmptyBuckets
              /\ ai = 0 /\ best = NoneRec /\ printed = <<>> /\ dump = NoneRec
              /\ cands = <<>>

NextClassify ==
    \/ Classify
    \/ SummaryNotObserved
    \/ \E f \in AllFetches : SummarySelected(f)
    \/ Dump

SpecClassify == InitClassify /\ [][NextClassify]_vars

-----------------------------------------------------------------------------
(* pick_best over the buckets of up to MaxCands candidates *)

PickMethods == {"GET", "POST", "post"}
PickSeqs    == {2, 5, 9}

InitPick ==
    \E n \in 0..MaxCands :
      \E c \in [1..n -> PickMethods \X PickSeqs] :
        /\ cands = [i \in 1..n |-> [rid |-> IdSeq[i], method |-> c[i][1], seq |-> c[i][2]]]
        /\ pc = "pick" /\ phase = 1 /\ log = <<>> /\ fed = 0
        /\ seq = 0 /\ reqs = <<>> /\ resps = <<>>
        /\ all_snapshots = <<>>
        /\ combined_reqs = <<>> /\ combined_resps = <<>>
        /\ buckets = EmptyBuckets
        /\ ai = 0 /\ best = NoneRec /\ printed = <<>> /\ dump = NoneRec

\* best = pick_best(cands)
PickBest ==
    /\ pc = "pick"
    /\ best' = pick_best(cands)
    /\ pc' = "picked"
    /\ UNCHANGED <<phase, log, fed, seq, reqs, resps, all_snapshots, combined_reqs,
                   combined_resps, buckets, ai, printed, dump, cands>>

NextPick == PickBest

SpecPick == InitPick /\ [][NextPick]_vars

-----------------------------------------------------------------------------
(* Properties *)

Max(S) == CHOOSE x \in S : \A y \in S : y <= x

Classified == pc \in {"summary", "dump", "done"}

\* the requestId of the entry e if collect takes e for a request (REQ) or a
\* response (RESP) event, None if it does not or e has no requestId
EventId(e, kind) ==
    IF ~e.decodes THEN None
    ELSE IF e.message.t # "obj" THEN None
    ELSE IF Get(e.message, "method", None) # kind THEN None
    ELSE IF Get(e.message, "params", EmptyObj).t # "obj" THEN None
    ELSE Get(Get(e.message, "params", EmptyObj), "requestId", None)

\* positions in the log of the events of the kind that carry a requestId
Events(kind) == {i \in 1..Len(log) : Truthy(EventId(log[i], kind))}
\* position of the latest event of the kind for id
LastEvent(kind, id) == Max({i \in Events(kind) : EventId(log[i], kind) = id})
\* the payload ("request" or "response") of the event at position i
Payload(i, key) == Get(Get(log[i].message, "params", EmptyObj), key, EmptyObj)

\* an entry the decoder is to skip: it does not decode, or its message, its
\* params or its request or response payload is not a mapping
Malformed(e) ==
    IF ~e.decodes THEN TRUE
    ELSE IF e.message.t # "obj" THEN TRUE
    ELSE LET p == Get(e.message, "params", EmptyObj)
         IN  IF p.t # "obj" THEN TRUE
             ELSE Get(p, "request", EmptyObj).t # "obj"
                  \/ Get(p, "response", EmptyObj).t # "obj"

WellFormedOnly(entries) == LET Good(e) == ~Malformed(e) IN SelectSeq(entries, Good)

\* C1: a classification run reports all five actions, in the order of the
\* summary, each as not observed (its bucket is empty) or with the request
\* selected for it, whatever the view, whether or not the selected exchange
\* has a response and whether or not its body can be fetched; it never ends
\* with only some of the five reported.
C1_CompleteSummary ==
    /\ pc # "crashed"
    /\ pc = "summary" => ai \in 1..Len(SUMMARY_ORDER) /\ Len(printed) = ai - 1
    /\ pc \in {"dump", "done"} => Len(printed) = Len(SUMMARY_ORDER)
    /\ \A i \in 1..Len(printed) :
          /\ printed[i].action = SUMMARY_ORDER[i]
          /\ printed[i].observed = (buckets[SUMMARY_ORDER[i]] # <<>>)
          /\ printed[i].observed =>
                \E c \in {buckets[SUMMARY_ORDER[i]][j] : j \in 1..Len(buckets[SUMMARY_ORDER[i]])} :
                    printed[i].URL = c.url /\ printed[i].METHOD = c.method

\* a finished run with an action not observed and an action whose selected
\* exchange has no response and whose body could not be fetched
C1_Witness ==
    /\ pc = "done"
    /\ \E i \in 1..Len(printed) : ~printed[i].observed
    /\ \E i \in 1..Len(printed) :
          /\ printed[i].observed
          /\ printed[i].STATUS = None
          /\ ~printed[i].RESPONSE_BODY_SNIPPET.shown

\* h shows no value of a header of the redaction set
Hidden(h) ==
    \A k \in DOMAIN h : (\E x \in HIDE_HDRS : lower(k) = Chars(x)) => h[k] = REDACTED

\* C2: in every record that leaves the engine, the request and response
\* headers printed in the summary and the headers of every request and
\* response of the dump, each header of the redaction set (any case) carries
\* the redaction marker, never its value.
C2_ExportsRedacted ==
    /\ \A i \in 1..Len(printed) :
          printed[i].observed =>
              Hidden(printed[i].REQUEST_HEADERS) /\ Hidden(printed[i].RESPONSE_HEADERS)
    /\ dump # NoneRec =>
          \A i \in 1..Len(dump.phases) :
              /\ \A j \in 1..Len(dump.phases[i].reqs) : Hidden(dump.phases[i].reqs[j].v.headers)
              /\ \A j \in 1..Len(dump.phases[i].resps) : Hidden(dump.phases[i].resps[j].v.headers)

\* C3: collect never raises on a malformed entry, and what it has built is
\* what the well-formed entries of its log alone build: a malformed entry is
\* skipped and the entries before and after it are processed.
C3_MalformedSkipped ==
    /\ pc # "crashed"
    /\ [seq |-> seq, reqs |-> reqs, resps |-> resps]
          = [x \in {"seq", "reqs", "resps"} |->
                collect_all([seq |-> 0, reqs |-> <<>>, resps |-> <<>>, raised |-> FALSE],
                            WellFormedOnly(log))[x]]

\* the actions, by index in the table, with a pattern matching the url u
Matching == [u \in ViewURLs |-> {j \in 1..Len(ACTIONS_TABLE) : matches(u, ACTIONS_TABLE[j].pats)}]

\* C4: every request of the combined view is once in the bucket of the first
\* action, in the order of the table, with a pattern matching its url, and
\* in no other bucket; a request that no action matches is in no bucket; and
\* the buckets hold nothing else.
C4_FirstMatchWins ==
    Classified =>
        /\ \A i \in 1..Len(combined_reqs) :
              LET item == combined_reqs[i]
                  M    == Matching[item.v.url]
              IN  \A j \in 1..Len(ACTIONS_TABLE) :
                     LET b == buckets[ACTIONS_TABLE[j].action]
                     IN  Cardinality({n \in 1..Len(b) : b[n].rid = item.k})
                            = IF M # {} /\ j = (CHOOSE m \in M : \A o \in M : m <= o) THEN 1 ELSE 0
        /\ \A j \in 1..Len(ACTIONS_TABLE) :
              LET b == buckets[ACTIONS_TABLE[j].action]
              IN  \A n \in 1..Len(b) :
                     /\ DictHas(combined_reqs, b[n].rid)
                     /\ b[n] = DictGet(combined_reqs, b[n].rid, NoneRec) @@ [rid |-> b[n].rid]
                     /\ j \in Matching[b[n].url]

\* a url that the patterns of add_to_cart and of view_cart match, bucketed
\* under add_to_cart alone, beside a request in no bucket
C4_Witness ==
    /\ Classified
    /\ \E n \in 1..Len(buckets["add_to_cart"]) :
          /\ buckets["add_to_cart"][n].url = "https://h/api/cart"
          /\ Matching["https://h/api/cart"] = {2, 3}
          /\ \A m \in 1..Len(buckets["view_cart"]) :
                buckets["view_cart"][m].rid # buckets["add_to_cart"][n].rid
    /\ \E i \in 1..Len(combined_reqs) :
          \A a \in ActionNames : \A n \in 1..Len(buckets[a]) : buckets[a][n].rid # combined_reqs[i].k

\* C5: pick_best returns None for an empty bucket, and else a member of the
\* bucket that is a POST (in any case of the letters) if any member is, and
\* that no member of its own POST/non-POST rank exceeds in seq; of
\* [GET seq 5, POST seq 2, POST seq 9] it returns the POST of seq 9.
C5_PickBest ==
    pc = "picked" =>
        /\ cands = <<>> => best = NoneRec
        /\ cands # <<>> =>
              /\ \E i \in 1..Len(cands) : best = cands[i]
              /\ (\E i \in 1..Len(cands) : upper(cands[i].method) = Chars("POST"))
                    => upper(best.method) = Chars("POST")
              /\ \A i \in 1..Len(cands) :
                    (upper(cands[i].method) = Chars("POST")) = (upper(best.method) = Chars("POST"))
                        => cands[i].seq <= best.seq
        /\ (/\ Len(cands) = 3
            /\ <<cands[1].method, cands[1].seq>> = <<"GET", 5>>
            /\ <<cands[2].method, cands[2].seq>> = <<"POST", 2>>
            /\ <<cands[3].method, cands[3].seq>> = <<"POST", 9>>)
              => best = cands[3]

\* pick_best has chosen among [GET seq 5, POST seq 2, POST seq 9]
C5_Witness ==
    /\ pc = "picked"
    /\ Len(cands) = 3
    /\ <<cands[1].method, cands[1].seq>> = <<"GET", 5>>
    /\ <<cands[2].method, cands[2].seq>> = <<"POST", 2>>
    /\ <<cands[3].method, cands[3].seq>> = <<"POST", 9>>
    /\ best.method = "POST" /\ best.seq = 9

\* the snapshots, by index, whose requests (half = "reqs") or responses
\* (half = "resps") hold id
Holding(half, id) == {i \in 1..Len(all_snapshots) : DictHas(all_snapshots[i][half], id)}

\* C6: after the fold of the snapshots, combined_reqs holds for every id in
\* the requests of some snapshot the record of the last such snapshot, and
\* holds no other id.
C6_LaterPhaseOverwrites ==
    Classified =>
        /\ DictKeys(combined_reqs) = {id \in IDS : Holding("reqs", id) # {}}
        /\ \A id \in DictKeys(combined_reqs) :
              DictGet(combined_reqs, id, NoneRec)
                 = DictGet(all_snapshots[Max(Holding("reqs", id))].reqs, id, NoneRec)

\* an id with different urls in two snapshots, the later url in combined_reqs
C6_Witness ==
    /\ Classified
    /\ \E id \in IDS :
          \E i, j \in Holding("reqs", id) :
             /\ i < j
             /\ DictGet(all_snapshots[i].reqs, id, NoneRec).url
                   # DictGet(all_snapshots[j].reqs, id, NoneRec).url
             /\ DictGet(combined_reqs, id, NoneRec).url
                   = DictGet(all_snapshots[j].reqs, id, NoneRec).url

\* C7 as claimed: the last snapshot that holds an id, as a request or as a
\* response, gives both halves of the combined view for that id; what that
\* snapshot lacks is absent from the combined view.
C7_LastSnapshotWinsBothHalves ==
    Classified =>
        \A id \in IDS :
           LET S == Holding("reqs", id) \cup Holding("resps", id)
           IN  S # {} =>
                 /\ DictHas(combined_reqs, id) = DictHas(all_snapshots[Max(S)].reqs, id)
                 /\ DictGet(combined_reqs, id, NoneRec)
                       = DictGet(all_snapshots[Max(S)].reqs, id, NoneRec)
                 /\ DictHas(combined_resps, id) = DictHas(all_snapshots[Max(S)].resps, id)
                 /\ DictGet(combined_resps, id, NoneRec)
                       = DictGet(all_snapshots[Max(S)].resps, id, NoneRec)

\* C7 as amended: each half is folded on its own; the request of an id is
\* that of the last snapshot whose requests hold the id, its response that
\* of the last snapshot whose responses hold the id, and the response that
\* the summary prints with a selected request is that combined response.
C7_HalvesFoldedApart ==
    Classified =>
        /\ \A id \in IDS :
              /\ DictHas(combined_reqs, id) = (Holding("reqs", id) # {})
              /\ DictHas(combined_resps, id) = (Holding("resps", id) # {})
              /\ Holding("reqs", id) # {} =>
                    DictGet(combined_reqs, id, NoneRec)
                       = DictGet(all_snapshots[Max(Holding("reqs", id))].reqs, id, NoneRec)
              /\ Holding("resps", id) # {} =>
                    DictGet(combined_resps, id, NoneRec)
                       = DictGet(all_snapshots[Max(Holding("resps", id))].resps, id, NoneRec)
        /\ (ai > 1 /\ best # NoneRec) =>
              printed[ai - 1].STATUS
                 = IF Holding("resps", best.rid) = {} THEN None
                   ELSE DictGet(all_snapshots[Max(Holding("resps", best.rid))].resps,
                                best.rid, NoneRec).status

\* an id whose request comes from a snapshot that has no response for it
\* and whose response comes from an earlier snapshot
C7_Witness ==
    /\ Classified
    /\ \E id \in IDS :
          /\ Holding("reqs", id) # {} /\ Holding("resps", id) # {}
          /\ Max(Holding("resps", id)) < Max(Holding("reqs", id))
          /\ DictHas(combined_resps, id)

\* the snapshot a combined request comes from
Origin(id) == Max(Holding("reqs", id))

\* C8: the request that the summary selects is never one of an earlier
\* phase preferred, on its larger per-phase seq alone, to a candidate of the
\* same bucket and rank that comes from a later phase.
C8_RecencyFollowsMergeOrder ==
    (Classified /\ ai > 1 /\ best # NoneRec) =>
        LET b == buckets[SUMMARY_ORDER[ai - 1]]
        IN  \A n \in 1..Len(b) :
               ~ /\ rank(b[n]) = rank(best)
                 /\ Origin(b[n].rid) > Origin(best.rid)
                 /\ best.seq > b[n].seq

\* C9: while collect runs, reqs holds the ids of the request events that
\* carry a requestId, each with the record of its latest event; the seq
\* values are pairwise different and grow in the order of those latest
\* events; seq counts the request events that carry a requestId, so that an
\* event without one creates and changes nothing.
C9_SeqAndLastWrite ==
    pc = "collect" =>
        /\ DictKeys(reqs) = {EventId(log[i], REQ) : i \in Events(REQ)}
        /\ seq = Cardinality(Events(REQ))
        /\ \A a, b \in DictKeys(reqs) :
              /\ a # b => DictGet(reqs, a, NoneRec).seq # DictGet(reqs, b, NoneRec).seq
              /\ LastEvent(REQ, a) < LastEvent(REQ, b)
                    => DictGet(reqs, a, NoneRec).seq < DictGet(reqs, b, NoneRec).seq
        /\ \A a \in DictKeys(reqs) :
              LET r   == Payload(LastEvent(REQ, a), "request")
                  rec == DictGet(reqs, a, NoneRec)
              IN  /\ rec.url = Get(r, "url", "")
                  /\ rec.method = Get(r, "method", "GET")
                  /\ rec.headers = Get(r, "headers", <<>>)
                  /\ rec.postData = Get(r, "postData", None)
                  /\ rec.seq = Cardinality({i \in Events(REQ) : i <= LastEvent(REQ, a)})

\* X again after an event without requestId: X holds its latest record
C9_Witness ==
    /\ pc = "collect"
    /\ Len(log) = 3
    /\ EventId(log[1], REQ) = "X" /\ Payload(1, "request") = RQ_GET
    /\ log[2] = Decoded(Obj([method |-> REQ, params |-> Obj([request |-> RQ_GET])]))
    /\ EventId(log[3], REQ) = "X" /\ Payload(3, "request") = RQ_POST
    /\ DictGet(reqs, "X", NoneRec).seq = 2
    /\ DictGet(reqs, "X", NoneRec).method = "POST"

\* C10: while collect runs, resps holds the ids of the response events that
\* carry a requestId, each with the record of its latest event, whether the
\* request of the id came before, after or never; the response events leave
\* reqs and seq alone; and collect raises on a malformed entry alone, never
\* on a response that has no request.
C10_ResponsesStoredUnconditionally ==
    /\ pc = "collect" =>
          /\ DictKeys(resps) = {EventId(log[i], RESP) : i \in Events(RESP)}
          /\ \A a \in DictKeys(resps) :
                LET r   == Payload(LastEvent(RESP, a), "response")
                    rec == DictGet(resps, a, NoneRec)
                IN  /\ rec.status = Get(r, "status", None)
                    /\ rec.headers = Get(r, "headers", <<>>)
                    /\ rec.mimeType = Get(r, "mimeType", None)
          /\ DictKeys(reqs) = {EventId(log[i], REQ) : i \in Events(REQ)}
          /\ seq = Cardinality(Events(REQ))
    /\ pc = "crashed" => Malformed(log[Len(log)])

\* the response of X arrives before any request, then the request of Y: X
\* has a response and no request
C10_Witness ==
    /\ pc = "collect"
    /\ Len(log) = 2
    /\ EventId(log[1], RESP) = "X"
    /\ EventId(log[2], REQ) = "Y"
    /\ DictHas(resps, "X") /\ ~DictHas(reqs, "X") /\ DictKeys(reqs) = {"Y"}
    /\ seq = 1

=============================================================================
